---- MODULE Spec2Model ----
(***************************************************************************)
(* Travel agency DSR (src/app.py): a Streamlit script over three           *)
(* PostgreSQL tables (users, opening_outstanding, transactions).  Every    *)
(* browser session runs the script top to bottom on each interaction, in   *)
(* its own thread; every database call opens its own connection and       *)
(* commits one statement.                                                  *)
(*                                                                         *)
(* Text is a sequence of one-character strings, so that str.strip() is     *)
(* computed.  Money typed into st.number_input is a float; it is modelled  *)
(* in quarter cents (0.0025), and a NUMERIC(14,2) column holds cents.      *)
(* Binary floating point rounding of float(opening) + float(movement) is   *)
(* not modelled: sums are integer sums of cents.                           *)
(***************************************************************************)
EXTENDS Integers, Sequences, FiniteSets, TLC

VARIABLES
    users,                \* table users, in id order; id = position
    opening_outstanding,  \* table opening_outstanding: staff_user_id -> cents
    transactions,         \* table transactions, in id order
    session_user,         \* st.session_state.user of every browser session
    pc,                   \* where a session's running script is
    shown,                \* the st.error / st.success text the latest run's page ends with
    out_at_save           \* history: staff id -> `out` (line 504) and its `opening`
                          \* (line 229) in the run that saved the account's latest
                          \* entry; kept by SpecRoundTrip only

vars == <<users, opening_outstanding, transactions, session_user, pc, shown,
          out_at_save>>

db == <<users, opening_outstanding, transactions>>

----------------------------------------------------------------------------
(* Bounds of the model *)

\* rows of transactions, in Spec, in SpecLedger and in SpecRoundTrip
MaxTxns == 1
MaxLedgerTxns == 2
MaxRoundTripTxns == 3

----------------------------------------------------------------------------
(* Text and money *)

Whitespace == {" "}

RECURSIVE lstrip(_)
lstrip(s) ==
    IF s # <<>> /\ Head(s) \in Whitespace THEN lstrip(Tail(s)) ELSE s

RECURSIVE rstrip(_)
rstrip(s) ==
    IF s # <<>> /\ s[Len(s)] \in Whitespace
    THEN rstrip(SubSeq(s, 1, Len(s) - 1))
    ELSE s

\* str.strip()
strip(s) == rstrip(lstrip(s))

\* SQL NULL
NULL == <<"NULL">>

\* x.strip() or None
strip_or_none(s) == IF strip(s) = <<>> THEN NULL ELSE strip(s)

\* float -> NUMERIC(14,2): quarter cents to cents, half away from zero
numeric_14_2(q) ==
    IF q >= 0 THEN (q + 2) \div 4 ELSE -((2 - q) \div 4)

----------------------------------------------------------------------------
(* Accounts *)

\* st.session_state.user = None
None == [id |-> 0, username |-> <<>>, role |-> "none", staff_name |-> <<>>]

\* bcrypt.hashpw(password, salt)
hashpw(password, salt) == <<salt, password>>

\* bcrypt.checkpw(password, pw_hash): rehash with the salt kept in the hash
checkpw(password, pw_hash) == hashpw(password, pw_hash[1]) = pw_hash

\* LOWER() on the letters of the model's alphabet
lower_char(c) ==
    CASE c = "A" -> "a"
      [] c = "S" -> "s"
      [] c = "T" -> "t"
      [] c = "R" -> "r"
      [] c = "X" -> "x"
      [] OTHER -> c

lower(s) == [k \in 1..Len(s) |-> lower_char(s[k])]

\* SELECT COUNT(*) FROM users > 0
users_exist == Len(users) > 0

\* a variant that compares the username as typed, before .strip()
unique_violation_as_typed(username) ==
    \E i \in 1..Len(users) : users[i].username = username

\* the UNIQUE constraint on users.username would reject the insert
unique_violation(username) ==
    \E i \in 1..Len(users) : users[i].username = strip(username)

\* INSERT INTO users(username, password_hash, role, staff_name)
create_user(username, password, role, staff_name, salt) ==
    Append(users,
           [id |-> Len(users) + 1,
            username |-> strip(username),
            password_hash |-> hashpw(password, salt),
            role |-> role,
            staff_name |-> strip(staff_name),
            active |-> TRUE])

\* a variant that looks the username up without regard to case
rows_by_username_any_case(username) ==
    {i \in 1..Len(users) : lower(users[i].username) = lower(strip(username))}

\* SELECT ... FROM users WHERE username=%s  (at most one row: username is UNIQUE)
rows_by_username(username) ==
    {i \in 1..Len(users) : users[i].username = strip(username)}

\* a variant that does not look at the active flag
verify_login_of_inactive(username, password) ==
    LET rows == rows_by_username(username) IN
    IF rows = {} THEN None
    ELSE LET row == users[CHOOSE i \in rows : TRUE] IN
         IF checkpw(password, row.password_hash)
         THEN [id |-> row.id, username |-> row.username,
               role |-> row.role, staff_name |-> row.staff_name]
         ELSE None

verify_login(username, password) ==
    LET rows == rows_by_username(username) IN
    IF rows = {} THEN None
    ELSE LET row == users[CHOOSE i \in rows : TRUE] IN
         IF ~row.active THEN None
         ELSE IF checkpw(password, row.password_hash)
              THEN [id |-> row.id, username |-> row.username,
                    role |-> row.role, staff_name |-> row.staff_name]
              ELSE None

\* UPDATE users SET active=%s WHERE id=%s
set_user_active(user_id, active) ==
    [i \in 1..Len(users) |->
        IF users[i].id = user_id THEN [users[i] EXCEPT !.active = active]
        ELSE users[i]]

----------------------------------------------------------------------------
(* Outstanding logic *)

\* a variant whose DO UPDATE adds to the stored amount
set_opening_outstanding_accumulating(staff_id, amount) ==
    [i \in DOMAIN opening_outstanding \cup {staff_id} |->
        IF i # staff_id THEN opening_outstanding[i]
        ELSE IF i \in DOMAIN opening_outstanding
        THEN opening_outstanding[i] + numeric_14_2(amount)
        ELSE numeric_14_2(amount)]

\* INSERT ... ON CONFLICT (staff_user_id) DO UPDATE SET opening_amount = EXCLUDED.opening_amount
set_opening_outstanding(staff_id, amount) ==
    [i \in DOMAIN opening_outstanding \cup {staff_id} |->
        IF i = staff_id THEN numeric_14_2(amount) ELSE opening_outstanding[i]]

\* SELECT opening_amount ... ; float(r[0]) if r else 0.0
get_opening_outstanding(staff_id) ==
    IF staff_id \in DOMAIN opening_outstanding
    THEN opening_outstanding[staff_id]
    ELSE 0

\* a variant whose REFUND branch lost its sign
outstanding_effect_refund_added(t) ==
    CASE t.entry_type = "SALE" -> t.bill_to_customer
      [] t.entry_type = "REFUND" -> t.bill_to_customer
      [] t.entry_type = "RECEIPT" -> -t.receipt_amount
      [] t.entry_type = "ADM" -> t.adm_amount
      [] OTHER -> 0

\* the CASE of compute_outstanding's SUM
outstanding_effect(t) ==
    CASE t.entry_type = "SALE" -> t.bill_to_customer
      [] t.entry_type = "REFUND" -> -t.bill_to_customer
      [] t.entry_type = "RECEIPT" -> -t.receipt_amount
      [] t.entry_type = "ADM" -> t.adm_amount
      [] OTHER -> 0

\* COALESCE(SUM(CASE ...), 0) FROM transactions WHERE staff_user_id=%s, over rows 1..n
RECURSIVE sum_effect(_, _, _)
sum_effect(txns, staff_id, n) ==
    IF n = 0 THEN 0
    ELSE sum_effect(txns, staff_id, n - 1)
         + (IF txns[n].staff_user_id = staff_id
            THEN outstanding_effect(txns[n]) ELSE 0)

\* a variant that sums only the entries dated from the report's "From" date on
compute_outstanding_windowed(staff_id) ==
    LET opening == get_opening_outstanding(staff_id)
        recent == SelectSeq(transactions, LAMBDA t : t.txn_date >= 2)
        movement == sum_effect(recent, staff_id, Len(recent))
    IN opening + movement

compute_outstanding(staff_id) ==
    LET opening == get_opening_outstanding(staff_id)
        movement == sum_effect(transactions, staff_id, Len(transactions))
    IN opening + movement

----------------------------------------------------------------------------
(* Transactions *)

\* INSERT INTO transactions(...): the row add_transaction stores
add_transaction(staff_id, txn_date, entry_type, ai_code, ticket_number, passenger_name, route, supplier, reference_no, notes, basic_fare, comm, net_to_supp, bill_to_customer, receipt_amount, adm_amount) ==
    Append(transactions,
           [id |-> Len(transactions) + 1,
            staff_user_id |-> staff_id,
            txn_date |-> txn_date,
            entry_type |-> entry_type,
            ai_code |-> strip_or_none(ai_code),
            ticket_number |-> strip_or_none(ticket_number),
            passenger_name |-> strip_or_none(passenger_name),
            route |-> strip_or_none(route),
            supplier |-> strip_or_none(supplier),
            reference_no |-> strip_or_none(reference_no),
            notes |-> strip_or_none(notes),
            basic_fare |-> numeric_14_2(basic_fare),
            comm |-> numeric_14_2(comm),
            net_to_supp |-> numeric_14_2(net_to_supp),
            bill_to_customer |-> numeric_14_2(bill_to_customer),
            receipt_amount |-> numeric_14_2(receipt_amount),
            adm_amount |-> numeric_14_2(adm_amount)])

\* ORDER BY txn_date DESC, id DESC over the rows with ids in S
RECURSIVE order_by_date_id_desc(_)
order_by_date_id_desc(S) ==
    IF S = {} THEN <<>>
    ELSE LET first == CHOOSE i \in S : \A j \in S :
                          \/ transactions[i].txn_date > transactions[j].txn_date
                          \/ /\ transactions[i].txn_date = transactions[j].txn_date
                             /\ i >= j
         IN <<first>> \o order_by_date_id_desc(S \ {first})

\* a variant that leaves the "To" date out
between_before_end(x, a, b) == x >= a /\ x < b

\* x BETWEEN a AND b
between(x, a, b) == x >= a /\ x <= b

\* the columns my_transactions_df selects (created_at is the insertion order)
my_row(t) ==
    [Date |-> t.txn_date, EntryType |-> t.entry_type, AICode |-> t.ai_code,
     TicketNumber |-> t.ticket_number, PassengerName |-> t.passenger_name,
     Route |-> t.route, Supplier |-> t.supplier, RefNo |-> t.reference_no,
     BillToCustomer |-> t.bill_to_customer, Receipt |-> t.receipt_amount,
     ADM |-> t.adm_amount, Notes |-> t.notes, CreatedAt |-> t.id]

my_transactions_df(staff_id, start_d, end_d) ==
    LET hit == {i \in 1..Len(transactions) :
                   /\ transactions[i].staff_user_id = staff_id
                   /\ between(transactions[i].txn_date, start_d, end_d)}
        ids == order_by_date_id_desc(hit)
    IN [k \in 1..Len(ids) |-> my_row(transactions[ids[k]])]

\* LOWER(x) LIKE LOWER('%tf%'), for a tf without the wildcards % and _
like_contains(x, tf) ==
    \E k \in 0..(Len(x) - Len(tf)) :
        SubSeq(lower(x), k + 1, k + Len(tf)) = lower(tf)

\* COALESCE(x, '')
coalesce_text(x) == IF x = NULL THEN <<>> ELSE x

\* the columns all_transactions_df selects, t JOIN users u ON u.id = t.staff_user_id
all_row(t, u) ==
    [Date |-> t.txn_date, StaffName |-> u.staff_name, EnteredBy |-> u.username,
     EntryType |-> t.entry_type, AICode |-> t.ai_code,
     TicketNumber |-> t.ticket_number, PassengerName |-> t.passenger_name,
     Route |-> t.route, Supplier |-> t.supplier, RefNo |-> t.reference_no,
     BillToCustomer |-> t.bill_to_customer, Receipt |-> t.receipt_amount,
     ADM |-> t.adm_amount, Notes |-> t.notes, CreatedAt |-> t.id]

all_transactions_df(start_d, end_d, text_filter) ==
    LET joined == {i \in 1..Len(transactions) :
                      \E j \in 1..Len(users) :
                          users[j].id = transactions[i].staff_user_id}
        owner(i) == users[CHOOSE j \in 1..Len(users) :
                              users[j].id = transactions[i].staff_user_id]
        tf == strip(text_filter)
        hit == IF tf # <<>>
               THEN {i \in joined :
                        /\ between(transactions[i].txn_date, start_d, end_d)
                        /\ \/ like_contains(owner(i).staff_name, tf)
                           \/ like_contains(owner(i).username, tf)
                           \/ like_contains(coalesce_text(transactions[i].ticket_number), tf)
                           \/ like_contains(coalesce_text(transactions[i].reference_no), tf)}
               ELSE {i \in joined :
                        between(transactions[i].txn_date, start_d, end_d)}
        ids == order_by_date_id_desc(hit)
    IN [k \in 1..Len(ids) |-> all_row(transactions[ids[k]], owner(ids[k]))]

\* the row of opening_outstanding the LEFT JOIN finds for users[j]: {} stands
\* for the NULL of a user without one
summary_opening(j) ==
    IF users[j].id \in DOMAIN opening_outstanding
    THEN {opening_outstanding[users[j].id]}
    ELSE {}

\* a variant that JOINs transactions instead of LEFT JOINing them
summary_joined_inner ==
    {<<j, i>> \in (1..Len(users)) \X (1..Len(transactions)) :
        /\ users[j].role = "staff"
        /\ transactions[i].staff_user_id = users[j].id}

\* FROM users u LEFT JOIN opening_outstanding o LEFT JOIN transactions t
\* WHERE u.role='staff': the pairs <<j, i>> of a user and one of its
\* transactions, <<j, 0>> for a user without any
summary_joined ==
    LET staff == {k \in 1..Len(users) : users[k].role = "staff"}
        mine(j) == {i \in 1..Len(transactions) :
                       transactions[i].staff_user_id = users[j].id}
    IN UNION {IF mine(j) = {} THEN {<<j, 0>>} ELSE {<<j, i>> : i \in mine(j)}
              : j \in staff}

\* GROUP BY u.id, u.staff_name, u.username, o.opening_amount
summary_group(r) ==
    <<users[r[1]].id, users[r[1]].staff_name, users[r[1]].username,
      summary_opening(r[1])>>

\* SUM(CASE ... ELSE 0 END) over the joined rows R of a group
RECURSIVE summary_sum(_)
summary_sum(R) ==
    IF R = {} THEN 0
    ELSE LET r == CHOOSE r \in R : TRUE
         IN (IF r[2] = 0 THEN 0 ELSE outstanding_effect(transactions[r[2]]))
               + summary_sum(R \ {r})

\* COALESCE(o.opening_amount, 0)
coalesce_amount(o) == IF o = {} THEN 0 ELSE CHOOSE x \in o : TRUE

\* one row per group; the order among equal staff names is the database's
\* choice, so the result is kept as the set of its rows
outstanding_summary_df ==
    {[id |-> g[1],
      StaffName |-> g[2],
      Username |-> g[3],
      Opening |-> coalesce_amount(g[4]),
      Movement |-> summary_sum({r \in summary_joined : summary_group(r) = g}),
      Outstanding |-> coalesce_amount(g[4])
                      + summary_sum({r \in summary_joined : summary_group(r) = g})]
     : g \in {summary_group(r) : r \in summary_joined}}

----------------------------------------------------------------------------
(* The script, one action per submitted widget *)

Sessions == {1, 2}

Init ==
    /\ users = <<>>
    /\ opening_outstanding = <<>>
    /\ transactions = <<>>
    /\ session_user = [s \in Sessions |-> None]
    /\ pc = [s \in Sessions |-> "idle"]
    /\ shown = ""
    /\ out_at_save = <<>>

\* the page a run of session s ends with: a success followed by st.rerun() is
\* drawn over by the rerun, so only the text of a run that stops is left
show(s, text) == shown' = text

\* `if not users_exist():` read by a run while the users table is empty; the
\* run then holds the create_admin form.  Once a row exists the test is False
\* for good, so the runs that pass it need no step of their own.
SetupGate(s) ==
    /\ pc[s] = "idle"
    /\ ~users_exist
    /\ pc' = [pc EXCEPT ![s] = "setup"]
    /\ UNCHANGED <<db, session_user, shown, out_at_save>>

\* the create_admin form drawn and not submitted: st.stop()
SetupRender(s) ==
    /\ pc[s] = "setup"
    /\ pc' = [pc EXCEPT ![s] = "idle"]
    /\ show(s, "")
    /\ UNCHANGED <<db, session_user, out_at_save>>

\* `if ok:` of the create_admin form: the rows of users afterwards and the
\* text the page ends with
create_admin_click(a_user, a_name, a_pass, a_pass2, salt) ==
    IF a_user = <<>> \/ a_name = <<>> \/ a_pass = ""
    THEN [users |-> users, shown |-> "Fill all fields."]
    ELSE IF a_pass # a_pass2
    THEN [users |-> users, shown |-> "Passwords do not match."]
    ELSE IF unique_violation(a_user)
    THEN [users |-> users, shown |-> "Could not create admin"]
    ELSE [users |-> create_user(a_user, a_pass, "admin", a_name, salt),
          shown |-> "Admin created. Refresh and login."]

\* `if ok:` of the create_admin form
SetupSubmit(s, a_user, a_name, a_pass, a_pass2, salt) ==
    /\ pc[s] = "setup"
    /\ pc' = [pc EXCEPT ![s] = "idle"]
    /\ users' = create_admin_click(a_user, a_name, a_pass, a_pass2, salt).users
    /\ show(s, create_admin_click(a_user, a_name, a_pass, a_pass2, salt).shown)
    /\ UNCHANGED <<opening_outstanding, transactions, session_user, out_at_save>>

\* a run that is past the first admin setup
running(s) == pc[s] = "idle" /\ users_exist

\* `if st.button("Login"):` of a logged out session: the new
\* st.session_state.user and the text the page ends with
login_click(u, p) ==
    LET user == verify_login(u, p) IN
    IF user # None
    THEN [user |-> user, shown |-> ""]
    ELSE [user |-> None, shown |-> "Invalid login or user inactive."]

\* st.button("Login")
Login(s, u, p) ==
    /\ running(s)
    /\ session_user[s] = None
    /\ session_user' = [session_user EXCEPT ![s] = login_click(u, p).user]
    /\ show(s, login_click(u, p).shown)
    /\ UNCHANGED <<db, pc, out_at_save>>

\* st.button("Logout")
Logout(s) ==
    /\ running(s)
    /\ session_user[s] # None
    /\ session_user' = [session_user EXCEPT ![s] = None]
    /\ show(s, "")
    /\ UNCHANGED <<db, pc, out_at_save>>

\* a variant that reads the account's active flag again in every run
staff_ui_while_active(s) ==
    /\ running(s)
    /\ session_user[s] # None
    /\ session_user[s].role = "staff"
    /\ \E i \in 1..Len(users) :
          users[i].id = session_user[s].id /\ users[i].active

\* a variant that draws the staff UI for every logged in user
staff_ui_for_all(s) == running(s) /\ session_user[s] # None

staff_ui(s) == running(s) /\ session_user[s] # None /\ session_user[s].role = "staff"

admin_ui(s) == running(s) /\ session_user[s] # None /\ session_user[s].role # "staff"

\* the values of the entry_form's widgets as the script reads them: the widgets
\* of the other entry types are not drawn and get their fixed values
entry_form(w) ==
    IF w.entry_type \in {"SALE", "REFUND"}
    THEN [w EXCEPT !.reference_no = <<>>, !.receipt_amount = 0, !.adm_amount = 0]
    ELSE IF w.entry_type = "RECEIPT"
    THEN [w EXCEPT !.ai_code = <<>>, !.ticket_number = <<>>,
                   !.passenger_name = <<>>, !.route = <<>>, !.supplier = <<>>,
                   !.basic_fare = 0, !.comm = 0, !.net_to_supp = 0,
                   !.bill_to_customer = 0, !.adm_amount = 0]
    ELSE [w EXCEPT !.ai_code = <<>>, !.ticket_number = <<>>,
                   !.passenger_name = <<>>, !.route = <<>>, !.supplier = <<>>,
                   !.basic_fare = 0, !.comm = 0, !.net_to_supp = 0,
                   !.bill_to_customer = 0, !.receipt_amount = 0]

\* a variant that tests the texts without .strip()
entry_error_unstripped(f) ==
    IF f.entry_type \in {"SALE", "REFUND"}
    THEN IF f.ai_code = <<>> \/ f.ticket_number = <<>> \/ f.passenger_name = <<>>
         THEN "AI Code, Ticket Number, Passenger Name are required."
         ELSE ""
    ELSE IF f.entry_type = "RECEIPT"
    THEN IF f.reference_no = <<>> \/ f.receipt_amount <= 0
         THEN "Receipt Ref No and Receipt Amount are required."
         ELSE ""
    ELSE IF f.reference_no = <<>> \/ f.adm_amount <= 0
         THEN "ADM Ref No and ADM Amount are required."
         ELSE ""

\* the validation of `if save:`; "" when the entry is accepted
entry_error(f) ==
    IF f.entry_type \in {"SALE", "REFUND"}
    THEN IF \/ strip(f.ai_code) = <<>>
            \/ strip(f.ticket_number) = <<>>
            \/ strip(f.passenger_name) = <<>>
         THEN "AI Code, Ticket Number, Passenger Name are required."
         ELSE ""
    ELSE IF f.entry_type = "RECEIPT"
    THEN IF strip(f.reference_no) = <<>> \/ f.receipt_amount <= 0
         THEN "Receipt Ref No and Receipt Amount are required."
         ELSE ""
    ELSE IF strip(f.reference_no) = <<>> \/ f.adm_amount <= 0
         THEN "ADM Ref No and ADM Amount are required."
         ELSE ""

\* a variant that writes over the account's latest row instead of adding one
entry_insert_over_latest(staff_id, f) ==
    LET appended == add_transaction(staff_id, f.txn_date, f.entry_type,
                        f.ai_code, f.ticket_number, f.passenger_name, f.route,
                        f.supplier, f.reference_no, f.notes, f.basic_fare,
                        f.comm, f.net_to_supp, f.bill_to_customer,
                        f.receipt_amount, f.adm_amount)
        own == {i \in 1..Len(transactions) :
                   transactions[i].staff_user_id = staff_id}
    IN IF own = {} THEN appended
       ELSE LET last == CHOOSE i \in own : \A j \in own : j <= i
            IN [transactions EXCEPT
                   ![last] = [appended[Len(appended)] EXCEPT !.id = last]]

\* the add_transaction call of each branch of `if save:`
entry_insert(staff_id, f) ==
    IF f.entry_type \in {"SALE", "REFUND"}
    THEN add_transaction(staff_id, f.txn_date, f.entry_type, f.ai_code,
                         f.ticket_number, f.passenger_name, f.route, f.supplier,
                         f.reference_no, f.notes, f.basic_fare, f.comm,
                         f.net_to_supp, f.bill_to_customer, f.receipt_amount,
                         f.adm_amount)
    ELSE IF f.entry_type = "RECEIPT"
    THEN add_transaction(staff_id, f.txn_date, f.entry_type, <<>>, <<>>, <<>>,
                         <<>>, <<>>, f.reference_no, f.notes, 0, 0, 0, 0,
                         f.receipt_amount, 0)
    ELSE add_transaction(staff_id, f.txn_date, f.entry_type, <<>>, <<>>, <<>>,
                         <<>>, <<>>, f.reference_no, f.notes, 0, 0, 0, 0,
                         0, f.adm_amount)

\* `if save:` in the session of staff_id: the rows of transactions afterwards
save_click(staff_id, w) ==
    LET f == entry_form(w) IN
    IF entry_error(f) # "" THEN transactions ELSE entry_insert(staff_id, f)

\* a run with `save` set, in a staff session
save_run(s, w) ==
    /\ staff_ui(s)
    /\ transactions' = save_click(session_user[s].id, w)
    /\ show(s, entry_error(entry_form(w)))
    /\ UNCHANGED <<users, opening_outstanding, session_user, pc>>

\* st.form_submit_button("Save Entry")
StaffSave(s, w) == save_run(s, w) /\ UNCHANGED out_at_save

\* menu "My Report"
MyReport(s, start, end) ==
    /\ staff_ui(s)
    /\ show(s, "")
    /\ UNCHANGED <<db, session_user, pc, out_at_save>>

\* menu "All Transactions"
AllTransactions(s, start, end, text_filter) ==
    /\ admin_ui(s)
    /\ show(s, "")
    /\ UNCHANGED <<db, session_user, pc, out_at_save>>

\* `if create:` of the create_staff form: the rows of users afterwards and the
\* text the page ends with
create_staff_click(nu, nn, np, salt) ==
    IF strip(nu) = <<>> \/ strip(nn) = <<>> \/ np = ""
    THEN [users |-> users, shown |-> "Fill all fields."]
    ELSE IF unique_violation(nu)
    THEN [users |-> users, shown |-> "Error: duplicate key"]
    ELSE [users |-> create_user(nu, np, "staff", nn, salt), shown |-> ""]

\* st.form_submit_button("Create Staff")
CreateStaff(s, nu, nn, np, salt) ==
    /\ admin_ui(s)
    /\ users' = create_staff_click(nu, nn, np, salt).users
    /\ show(s, create_staff_click(nu, nn, np, salt).shown)
    /\ UNCHANGED <<opening_outstanding, transactions, session_user, pc, out_at_save>>

\* st.button("Update Status")
UpdateStatus(s, uid, new_status) ==
    /\ admin_ui(s)
    /\ uid \in {users[i].id : i \in 1..Len(users)}
    /\ users' = set_user_active(uid, new_status)
    /\ show(s, "")
    /\ UNCHANGED <<opening_outstanding, transactions, session_user, pc, out_at_save>>

\* st.button("Save Opening Outstanding")
SaveOpening(s, sid, amt) ==
    /\ admin_ui(s)
    /\ sid \in {users[i].id : i \in {k \in 1..Len(users) : users[k].role = "staff"}}
    /\ opening_outstanding' = set_opening_outstanding(sid, amt)
    /\ show(s, "")
    /\ UNCHANGED <<users, transactions, session_user, pc, out_at_save>>

\* menu "Outstanding Summary"
OutstandingSummary(s) ==
    /\ admin_ui(s)
    /\ show(s, "")
    /\ UNCHANGED <<db, session_user, pc, out_at_save>>


----------------------------------------------------------------------------
(* What the users type *)

AdminNameInputs == {<<>>, <<"a">>, <<"s">>}
StaffLoginInputs == {<<" ">>, <<"s">>, <<"s", " ">>, <<"S">>}
LoginNameInputs == {<<"a">>, <<"s">>, <<" ", "s">>, <<"S">>, <<"x">>}
DisplayNameInputs == {<<>>, <<"n">>}
PasswordInputs == {"p", "q"}
NewPasswordInputs == {"", "p"}
Salts == {"salt"}
Dates == {1, 2}
TextInputs == {<<>>, <<" ">>, <<"x">>}
BillInputs == {4, 6}
AmountInputs == {0, 1, 4}
OpeningInputs == {-4, 1}

\* AI code, ticket number and passenger name, one of them blank
OneBlank ==
    {t \in TextInputs \X TextInputs \X TextInputs :
        Cardinality({k \in 1..3 : t[k] # <<"x">>}) = 1}

AllGiven == <<<<"x">>, <<"x">>, <<"x">>>>

NotDrawn == <<<<>>, <<>>, <<>>>>

\* the widgets of the entry_form for each entry type
widgets(entry_type, txn_date, req, bill_to_customer, reference_no, receipt_amount, adm_amount) ==
    [entry_type |-> entry_type, txn_date |-> txn_date, notes |-> <<>>,
     ai_code |-> req[1], ticket_number |-> req[2],
     passenger_name |-> req[3], route |-> <<>>, supplier |-> <<>>,
     basic_fare |-> 0, comm |-> 0, net_to_supp |-> 0,
     bill_to_customer |-> bill_to_customer, reference_no |-> reference_no,
     receipt_amount |-> receipt_amount, adm_amount |-> adm_amount]

\* forms with every required text given, and forms with one of them blank
EntryInputs(dates, bills, amounts) ==
    {widgets(ty, d, AllGiven, bill, <<>>, 0, 0) :
        ty \in {"SALE", "REFUND"}, d \in dates, bill \in bills}
    \cup {widgets(ty, 1, req, 4, <<>>, 0, 0) :
        ty \in {"SALE", "REFUND"}, req \in OneBlank}
    \cup {widgets("RECEIPT", d, NotDrawn, 0, <<"x">>, amt, 0) :
        d \in dates, amt \in amounts}
    \cup {widgets("RECEIPT", 1, NotDrawn, 0, ref, 4, 0) : ref \in TextInputs}
    \cup {widgets("ADM", d, NotDrawn, 0, <<"x">>, 0, amt) :
        d \in dates, amt \in amounts}
    \cup {widgets("ADM", 1, NotDrawn, 0, ref, 0, 4) : ref \in TextInputs}

UserIds == {users[i].id : i \in 1..Len(users)}

SpecEntryInputs == EntryInputs({1}, {4}, {0, 4})
LedgerEntryInputs == EntryInputs(Dates, {6}, AmountInputs)
RoundTripEntryInputs == EntryInputs({1}, BillInputs, {4})

Next ==
    \/ \E s \in Sessions : SetupGate(s)
    \/ \E s \in Sessions : SetupRender(s)
    \/ \E s \in Sessions, a_user \in AdminNameInputs,
          a_name \in DisplayNameInputs, a_pass \in NewPasswordInputs,
          a_pass2 \in PasswordInputs, salt \in Salts :
           SetupSubmit(s, a_user, a_name, a_pass, a_pass2, salt)
    \/ \E s \in Sessions, u \in LoginNameInputs, p \in PasswordInputs :
           Login(s, u, p)
    \/ \E s \in Sessions : Logout(s)
    \/ \E s \in Sessions, w \in SpecEntryInputs :
           Len(transactions) < MaxTxns /\ StaffSave(s, w)
    \/ \E s \in Sessions, start \in Dates, end \in Dates :
           MyReport(s, start, end)
    \/ \E s \in Sessions, start \in Dates, end \in Dates :
           AllTransactions(s, start, end, <<>>)
    \/ \E s \in Sessions, nu \in StaffLoginInputs, nn \in DisplayNameInputs,
          np \in NewPasswordInputs, salt \in Salts :
           CreateStaff(s, nu, nn, np, salt)
    \/ \E s \in Sessions, new_status \in BOOLEAN : \E uid \in UserIds :
           UpdateStatus(s, uid, new_status)
    \/ \E s \in Sessions : \E sid \in UserIds : SaveOpening(s, sid, 4)
    \/ \E s \in Sessions : OutstandingSummary(s)

Spec == Init /\ [][Next]_vars

----------------------------------------------------------------------------
(* The ledger of an agency that is set up: one admin and two staff accounts, *)
(* each logged in from a browser of its own                                 *)

LedgerUsers ==
    <<[id |-> 1, username |-> <<"a">>, password_hash |-> hashpw("p", "salt"),
       role |-> "admin", staff_name |-> <<"n">>, active |-> TRUE],
      [id |-> 2, username |-> <<"s">>, password_hash |-> hashpw("p", "salt"),
       role |-> "staff", staff_name |-> <<"n">>, active |-> TRUE],
      [id |-> 3, username |-> <<"S">>, password_hash |-> hashpw("p", "salt"),
       role |-> "staff", staff_name |-> <<"n">>, active |-> TRUE]>>

\* one browser session per account
LedgerSessions == {1, 2, 3}

session_of(u) ==
    [id |-> u.id, username |-> u.username, role |-> u.role,
     staff_name |-> u.staff_name]

InitLedger ==
    /\ users = LedgerUsers
    /\ opening_outstanding = <<>>
    /\ transactions = <<>>
    /\ session_user = [s \in LedgerSessions |-> session_of(LedgerUsers[s])]
    /\ pc = [s \in LedgerSessions |-> "idle"]
    /\ shown = ""
    /\ out_at_save = <<>>

NextLedger ==
    \/ \E s \in LedgerSessions, w \in LedgerEntryInputs :
           Len(transactions) < MaxLedgerTxns /\ StaffSave(s, w)
    \/ \E s \in LedgerSessions, start \in Dates, end \in Dates :
           MyReport(s, start, end)
    \/ \E s \in LedgerSessions, start \in Dates, end \in Dates :
           AllTransactions(s, start, end, <<>>)
    \/ \E s \in LedgerSessions, amt \in OpeningInputs : \E sid \in UserIds :
           SaveOpening(s, sid, amt)
    \/ \E s \in LedgerSessions : OutstandingSummary(s)

SpecLedger == InitLedger /\ [][NextLedger]_vars

----------------------------------------------------------------------------
(* The same agency, with the outstanding each save started from kept *)

\* st.form_submit_button("Save Entry"), remembering `out` of line 504
StaffSaveTracked(s, w) ==
    /\ save_run(s, w)
    /\ out_at_save' =
          IF transactions' = transactions THEN out_at_save
          ELSE [i \in DOMAIN out_at_save \cup {session_user[s].id} |->
                   IF i = session_user[s].id
                   THEN [out |-> compute_outstanding(session_user[s].id),
                         opening |-> get_opening_outstanding(session_user[s].id)]
                   ELSE out_at_save[i]]

NextRoundTrip ==
    \/ \E s \in LedgerSessions, w \in RoundTripEntryInputs :
           Len(transactions) < MaxRoundTripTxns /\ StaffSaveTracked(s, w)
    \/ \E s \in LedgerSessions : \E sid \in UserIds : SaveOpening(s, sid, -4)

SpecRoundTrip == InitLedger /\ [][NextRoundTrip]_vars

----------------------------------------------------------------------------
(* The ledger rule of the specification, section 4.2 *)

StaffIds == {users[i].id : i \in {k \in 1..Len(users) : users[k].role = "staff"}}

entries_of(a) == {i \in 1..Len(transactions) : transactions[i].staff_user_id = a}

opening_balance(a) ==
    IF \E i \in DOMAIN opening_outstanding : i = a
    THEN opening_outstanding[a]
    ELSE 0

movement(e) ==
    IF e.entry_type = "SALE" THEN e.bill_to_customer
    ELSE IF e.entry_type = "REFUND" THEN 0 - e.bill_to_customer
    ELSE IF e.entry_type = "RECEIPT" THEN 0 - e.receipt_amount
    ELSE e.adm_amount

RECURSIVE sum_movement(_)
sum_movement(S) ==
    IF S = {} THEN 0
    ELSE LET i == CHOOSE i \in S : TRUE
         IN movement(transactions[i]) + sum_movement(S \ {i})

\* the orders in which the stored entries could have been inserted
Orders == {p \in [1..Len(transactions) -> 1..Len(transactions)] :
              \A i, j \in 1..Len(transactions) : p[i] = p[j] => i = j}

\* C1: for every staff account, compute_outstanding is the opening balance (0
\* when none was set) plus the sum of movement over all the account's entries,
\* whatever their dates, and the same for every order of insertion.
C1_OutstandingIsOpeningPlusMovement ==
    \A a \in StaffIds :
        /\ compute_outstanding(a) = opening_balance(a) + sum_movement(entries_of(a))
        /\ \A p \in Orders :
              LET reordered == [k \in 1..Len(transactions) |-> transactions[p[k]]]
              IN opening_balance(a) + sum_effect(reordered, a, Len(reordered))
                    = compute_outstanding(a)

\* an opening balance and two entries of different types and dates
C1_Witness ==
    \E a \in StaffIds :
        /\ opening_balance(a) # 0
        /\ \E i, j \in entries_of(a) :
              /\ transactions[i].txn_date < transactions[j].txn_date
              /\ transactions[i].entry_type = "SALE"
              /\ transactions[j].entry_type = "RECEIPT"
              /\ movement(transactions[i]) + movement(transactions[j]) # 0
        /\ compute_outstanding(a) = 0

\* the entry a step stores, when it stores one
stores_entry == Len(transactions') = Len(transactions) + 1

new_entry == transactions'[Len(transactions')]

\* the account's latest entry
latest_of(a) ==
    transactions[CHOOSE i \in entries_of(a) : \A j \in entries_of(a) : j <= i]

\* a step that stores a REFUND of account a whose latest entry is a SALE of the
\* same bill_to_customer (BillInputs round to distinct amounts)
refund_after_sale(a) ==
    /\ stores_entry
    /\ new_entry.staff_user_id = a
    /\ new_entry.entry_type = "REFUND"
    /\ entries_of(a) # {}
    /\ latest_of(a).entry_type = "SALE"
    /\ latest_of(a).bill_to_customer = new_entry.bill_to_customer

\* C2 as claimed: a REFUND of X saved right after the account's SALE of X
\* leaves the account's outstanding at its value before the SALE.
C2_RoundTripAsClaimed ==
    [][\A a \in StaffIds :
          refund_after_sale(a) => compute_outstanding(a)' = out_at_save[a].out]_vars

\* C2, amended: the same, when the account's opening balance at the REFUND is
\* the one it had at the SALE.
C2_RoundTrip ==
    [][\A a \in StaffIds :
          (refund_after_sale(a)
              /\ get_opening_outstanding(a) = out_at_save[a].opening)
          => compute_outstanding(a)' = out_at_save[a].out]_vars

\* a SALE and then a REFUND of the same amount on an account with an opening
\* balance that did not change
C2_Witness ==
    \E a \in StaffIds :
        /\ Len(transactions) = 2
        /\ entries_of(a) = {1, 2}
        /\ transactions[1].entry_type = "SALE"
        /\ transactions[2].entry_type = "REFUND"
        /\ transactions[1].bill_to_customer = transactions[2].bill_to_customer
        /\ opening_balance(a) # 0
        /\ out_at_save[a].opening = opening_balance(a)
        /\ out_at_save[a].out = opening_balance(a) + transactions[1].bill_to_customer
        /\ compute_outstanding(a) = opening_balance(a)

\* C3 as claimed: every stored RECEIPT has an amount R > 0 and lowers its
\* account's outstanding by exactly R, every stored ADM has an amount A > 0 and
\* raises it by exactly A; none is stored with amount 0.
C3_ReceiptLowersAdmRaises ==
    [][\A a \in StaffIds :
          (stores_entry /\ new_entry.staff_user_id = a) =>
              LET before == compute_outstanding(a)
                  after == compute_outstanding(a)'
              IN /\ new_entry.entry_type = "RECEIPT" =>
                       /\ new_entry.receipt_amount > 0
                       /\ after = before - new_entry.receipt_amount
                 /\ new_entry.entry_type = "ADM" =>
                       /\ new_entry.adm_amount > 0
                       /\ after = before + new_entry.adm_amount]_vars

\* empty or whitespace-only
blank(t) == \A k \in 1..Len(t) : t[k] \in Whitespace

\* the submissions the specification rejects
fails_validation(w) ==
    \/ /\ w.entry_type \in {"SALE", "REFUND"}
       /\ blank(w.ai_code) \/ blank(w.ticket_number) \/ blank(w.passenger_name)
    \/ /\ w.entry_type = "RECEIPT"
       /\ blank(w.reference_no) \/ ~(w.receipt_amount > 0)
    \/ /\ w.entry_type = "ADM"
       /\ blank(w.reference_no) \/ ~(w.adm_amount > 0)

RejectedInputs == {w \in LedgerEntryInputs : fails_validation(w)}

\* C4: a submission that fails validation is answered with an error and leaves
\* the stored entries as they were (and with them every account's outstanding,
\* which is computed from the stored entries and the opening balances, neither
\* of which the handler writes).
C4_RejectedSubmissionMutatesNothing ==
    \A s \in DOMAIN session_user : \A w \in RejectedInputs :
        staff_ui(s) =>
            /\ entry_error(entry_form(w)) # ""
            /\ save_click(session_user[s].id, w) = transactions

\* a rejected submission on a ledger that holds entries
C4_Witness ==
    /\ shown \in {"AI Code, Ticket Number, Passenger Name are required.",
                  "Receipt Ref No and Receipt Amount are required.",
                  "ADM Ref No and ADM Amount are required."}
    /\ transactions # <<>>
    /\ \E a \in StaffIds : compute_outstanding(a) # 0

----------------------------------------------------------------------------
(* The authentication gate of the specification, section 4.1 *)

\* t is u without its leading and trailing whitespace
trimmed_to(u, t) ==
    \E a \in 0..Len(u) : \E b \in 0..(Len(u) - a) :
        /\ \A k \in 1..a : u[k] \in Whitespace
        /\ \A k \in (Len(u) - b + 1)..Len(u) : u[k] \in Whitespace
        /\ t = SubSeq(u, a + 1, Len(u) - b)
        /\ t = <<>> \/ (t[1] \notin Whitespace /\ t[Len(t)] \notin Whitespace)

\* the accounts whose username is exactly the trimmed input
accounts_named(u) == {i \in 1..Len(users) : trimmed_to(u, users[i].username)}

password_matches(i, p) ==
    \E salt \in Salts : users[i].password_hash = hashpw(p, salt)

InvalidLogin == "Invalid login or user inactive."

\* one of the three failures of a login with username u and password p
login_fails(u, p) ==
    \/ accounts_named(u) = {}
    \/ \E i \in accounts_named(u) : ~users[i].active /\ password_matches(i, p)
    \/ \E i \in accounts_named(u) : users[i].active /\ ~password_matches(i, p)

\* C5: a login with a nonexistent username, with an inactive account and its
\* password, and with an active account and a wrong password all end the same
\* way: verify_login returns None, the one message is shown and the session
\* stays logged out.
C5_LoginFailuresLookAlike ==
    /\ [](\A u \in LoginNameInputs, p \in PasswordInputs :
             login_fails(u, p) =>
                 /\ verify_login(u, p) = None
                 /\ login_click(u, p) = [user |-> None, shown |-> InvalidLogin])
    /\ [][shown' = InvalidLogin => session_user' = session_user]_vars

\* a refused login while each of the three failures can be had
C5_Witness ==
    /\ shown = InvalidLogin
    /\ \E s \in DOMAIN session_user : session_user[s] = None
    /\ \E u \in LoginNameInputs : accounts_named(u) = {}
    /\ \E u \in LoginNameInputs, p \in PasswordInputs :
          \E i \in accounts_named(u) : ~users[i].active /\ password_matches(i, p)
    /\ \E u \in LoginNameInputs, p \in PasswordInputs :
          \E i \in accounts_named(u) : users[i].active /\ ~password_matches(i, p)

\* a step in which a session logs in, or is refused
login_step ==
    \/ shown' = InvalidLogin
    \/ \E s \in DOMAIN session_user :
          session_user[s] = None /\ session_user'[s] # None

\* C6: verify_login succeeds exactly when an account with the trimmed username,
\* letter case included, exists, is active and has that password; it then
\* returns the account's id, role and display name; and a login writes to no
\* table.
C6_VerifyLoginExact ==
    /\ [](\A u \in LoginNameInputs, p \in PasswordInputs :
             LET hits == {i \in accounts_named(u) :
                            users[i].active /\ password_matches(i, p)}
                 user == verify_login(u, p)
             IN /\ (user # None) <=> (hits # {})
                /\ user # None =>
                      \E i \in hits : /\ user.id = users[i].id
                                       /\ user.role = users[i].role
                                       /\ user.staff_name = users[i].staff_name)
    /\ [][login_step => db' = db]_vars

\* a user logged in with surrounding whitespace typed, while an account whose
\* name differs only in case exists and an inactive one is refused
C6_Witness ==
    /\ verify_login(<<" ", "s">>, "p") # None
    /\ verify_login(<<"S">>, "p") = None
    /\ \E i, j \in 1..Len(users) :
          /\ users[i].username = <<"s">>
          /\ users[j].username = <<"S">>
          /\ ~users[j].active
    /\ \E s \in DOMAIN session_user : session_user[s].username = <<"s">>

\* C7 as claimed: the first admin setup, the one place that creates an admin
\* account, creates one only while the users table is empty, whatever the
\* interleaving of the sessions.
C7_BootstrapOnlyWhileEmpty ==
    [][(Len(users') > Len(users) /\ users'[Len(users')].role = "admin")
          => users = <<>>]_vars

----------------------------------------------------------------------------
(* The admin's views of the ledger *)

\* C8: the summary has exactly one row for each staff account and none for an
\* admin; in the row, Outstanding = Opening + Movement, Opening is
\* get_opening_outstanding and Outstanding is compute_outstanding of the
\* account, and all three are 0 for an account without entries and opening.
C8_SummaryMatchesOutstanding ==
    /\ \A r \in outstanding_summary_df : r.id \in StaffIds
    /\ \A a \in StaffIds :
          LET rows == {r \in outstanding_summary_df : r.id = a} IN
          /\ Cardinality(rows) = 1
          /\ \A r \in rows :
                /\ r.Outstanding = r.Opening + r.Movement
                /\ r.Opening = get_opening_outstanding(a)
                /\ r.Outstanding = compute_outstanding(a)
                /\ (entries_of(a) = {} /\ a \notin DOMAIN opening_outstanding)
                      => (r.Opening = 0 /\ r.Movement = 0 /\ r.Outstanding = 0)

\* one staff account with an opening balance and entries, one with neither
C8_Witness ==
    /\ \E r \in outstanding_summary_df :
          r.Opening # 0 /\ r.Movement # 0 /\ r.Outstanding # 0
    /\ \E a \in StaffIds : entries_of(a) = {} /\ a \notin DOMAIN opening_outstanding
    /\ Cardinality(outstanding_summary_df) = 2

\* a step that writes the opening balance of account sid from amount amt, in
\* a session of an admin, and leaves the rest of the store alone
opening_overwritten(sid, amt) ==
    /\ \E s \in DOMAIN session_user :
          session_user[s].role = "admin" /\ SaveOpening(s, sid, amt)
    /\ DOMAIN opening_outstanding' = DOMAIN opening_outstanding \cup {sid}
    /\ \A b \in DOMAIN opening_outstanding \ {sid} :
          opening_outstanding'[b] = opening_outstanding[b]
    /\ transactions' = transactions
    /\ users' = users
    /\ set_opening_outstanding(sid, amt)' = opening_outstanding'

\* C9 as claimed: every change of the opening balances is an overwrite of one
\* account's value by the amount typed, by an admin.  Amounts are typed in
\* quarters of a cent, stored in cents.
C9_OverwriteAsClaimed ==
    [][opening_outstanding' # opening_outstanding =>
          \E sid \in StaffIds, amt \in OpeningInputs :
              /\ opening_overwritten(sid, amt)
              /\ 4 * opening_outstanding'[sid] = amt]_vars

\* C9, amended: the value stored is the amount typed rounded to the cent.
C9_Overwrite ==
    [][opening_outstanding' # opening_outstanding =>
          \E sid \in StaffIds, amt \in OpeningInputs :
              /\ opening_overwritten(sid, amt)
              /\ 4 * opening_outstanding'[sid] - amt \in -2..2]_vars

\* an opening balance overwritten with another one, beside another account's
C9_Witness ==
    /\ shown = ""
    /\ \E a, b \in DOMAIN opening_outstanding :
          opening_outstanding[a] = 0 /\ opening_outstanding[b] = -1
    /\ transactions # <<>>

\* the ids of the rows of a report
created_at(df) == {df[k].CreatedAt : k \in 1..Len(df)}

\* C10: my_transactions_df returns exactly the account's entries dated from
\* start to end, both included, all_transactions_df without a text filter
\* those of all accounts, and both nothing when start > end.
C10_InclusiveDateRange ==
    \A start \in Dates, end \in Dates :
        LET dated == {i \in 1..Len(transactions) :
                         /\ start <= transactions[i].txn_date
                         /\ transactions[i].txn_date <= end}
            all == all_transactions_df(start, end, <<>>)
        IN /\ created_at(all) = dated
           /\ Len(all) = Cardinality(dated)
           /\ start > end => all = <<>>
           /\ \A a \in StaffIds :
                 LET mine == my_transactions_df(a, start, end)
                 IN /\ created_at(mine) = dated \cap entries_of(a)
                    /\ Len(mine) = Cardinality(dated \cap entries_of(a))
                    /\ start > end => mine = <<>>

\* an account with an entry on each of two dates: a report from the first to
\* the second shows both, one of a single day shows one
C10_Witness ==
    \E a \in StaffIds :
        /\ Len(my_transactions_df(a, 1, 2)) = 2
        /\ my_transactions_df(a, 1, 2)[1].Date = 2
        /\ my_transactions_df(a, 1, 2)[2].Date = 1
        /\ Len(my_transactions_df(a, 1, 1)) = 1
        /\ Len(my_transactions_df(a, 2, 2)) = 1
        /\ my_transactions_df(a, 2, 1) = <<>>
        /\ Len(all_transactions_df(1, 2, <<>>)) = 2

----------------------------------------------------------------------------
(* The lifecycle of entries and accounts, section 3 *)

\* txns holds every row of transactions, unchanged and in its place
keeps_entries(txns) ==
    /\ Len(txns) >= Len(transactions)
    /\ \A i \in 1..Len(transactions) : txns[i] = transactions[i]

\* C11: the entry store is append-only.  Every step of every session keeps each
\* stored entry as it is and adds at most one, and a submission in a staff
\* session adds exactly one entry when it is accepted and none when it is not.
C11_AppendOnly ==
    /\ [][keeps_entries(transactions')
            /\ Len(transactions') <= Len(transactions) + 1]_vars
    /\ [](\A s \in DOMAIN session_user : \A w \in SpecEntryInputs :
             staff_ui(s) =>
                 LET after == save_click(session_user[s].id, w) IN
                 /\ keeps_entries(after)
                 /\ Len(after) = Len(transactions)
                       + (IF entry_error(entry_form(w)) = "" THEN 1 ELSE 0))

\* an entry stored, and after it an opening balance set, the owner's account
\* deactivated and a session of a staff account open for the next submission
C11_Witness ==
    /\ Len(transactions) = 1
    /\ opening_outstanding # <<>>
    /\ \E i \in 1..Len(users) :
          users[i].id = transactions[1].staff_user_id /\ ~users[i].active
    /\ \E s \in DOMAIN session_user : staff_ui(s)
    /\ \E s \in DOMAIN session_user : session_user[s] = None

\* an account's username is the input without its surrounding whitespace
username_taken(u) == accounts_named(u) # {}

\* C12: no two accounts have the same username, and creating a user whose
\* trimmed username is that of an account, from the create staff form or from
\* a first admin setup still open, is answered with the error of the failed
\* insert and leaves every row of users as it was.
C12_UsernamesUnique ==
    /\ \A i, j \in 1..Len(users) :
          users[i].username = users[j].username => i = j
    /\ \A nu \in StaffLoginInputs, nn \in DisplayNameInputs,
          np \in NewPasswordInputs, salt \in Salts :
          username_taken(nu) =>
              LET r == create_staff_click(nu, nn, np, salt) IN
              /\ r.users = users
              /\ r.shown \in {"Error: duplicate key", "Fill all fields."}
              /\ (nn # <<>> /\ np # "") => r.shown = "Error: duplicate key"
    /\ \A a_user \in AdminNameInputs, a_name \in DisplayNameInputs,
          a_pass \in NewPasswordInputs, salt \in Salts :
          username_taken(a_user) =>
              LET r == create_admin_click(a_user, a_name, a_pass, a_pass, salt) IN
              /\ r.users = users
              /\ r.shown \in {"Could not create admin", "Fill all fields."}
              /\ (a_name # <<>> /\ a_pass # "") =>
                    r.shown = "Could not create admin"

\* a staff account refused for its username, typed with a trailing blank,
\* beside an account whose username differs from it in case only
C12_Witness ==
    /\ shown = "Error: duplicate key"
    /\ username_taken(<<"s", " ">>)
    /\ username_taken(<<"S">>)
    /\ Len(users) = 3

\* the account with id a
account(a) == users[CHOOSE i \in 1..Len(users) : users[i].id = a]

\* C13: every stored entry is owned by an account of role staff; a step that
\* stores an entry is a submission in a session logged in as a staff account,
\* the entry is owned by that session's account, and the outstanding of every
\* other account is left as it was.
C13_EntriesOwnedBySubmitter ==
    /\ [](\A i \in 1..Len(transactions) :
             transactions[i].staff_user_id \in StaffIds)
    /\ [][stores_entry =>
             \E s \in DOMAIN session_user : \E w \in SpecEntryInputs :
                 /\ save_run(s, w)
                 /\ session_user[s].role = "staff"
                 /\ account(session_user[s].id).role = "staff"
                 /\ new_entry.staff_user_id = session_user[s].id
                 /\ \A a \in UserIds \ {session_user[s].id} :
                       compute_outstanding(a)' = compute_outstanding(a)]_vars

\* an entry stored by a staff session while an admin session is open and
\* another staff account has an outstanding
C13_Witness ==
    /\ Len(transactions) = 1
    /\ \E s \in DOMAIN session_user :
          /\ staff_ui(s)
          /\ session_user[s].id = transactions[1].staff_user_id
    /\ \E s \in DOMAIN session_user : admin_ui(s)
    /\ \E a \in StaffIds :
          /\ a # transactions[1].staff_user_id
          /\ compute_outstanding(a) # 0
    /\ compute_outstanding(transactions[1].staff_user_id) # 0

\* a step that changes the active flag of an account
flag_step ==
    /\ Len(users') = Len(users)
    /\ \E i \in 1..Len(users) : users'[i].active # users[i].active

\* an entry form that passes validation
AcceptedInputs == {w \in SpecEntryInputs : ~fails_validation(w)}

\* C14: the active flag is read at login only.  A step that sets it leaves
\* every session logged in as it was; a session of a deactivated account keeps
\* its role and its UI, where a staff submission still stores an entry and the
\* admin handlers still write; a login to the deactivated account is refused.
C14_ActiveFlagReadAtLoginOnly ==
    /\ [][flag_step => session_user' = session_user]_vars
    /\ [](\A s \in DOMAIN session_user :
             (session_user[s] # None /\ ~account(session_user[s].id).active) =>
                 /\ session_user[s].role = account(session_user[s].id).role
                 /\ session_user[s].role = "staff" =>
                       /\ staff_ui(s)
                       /\ \A w \in AcceptedInputs :
                             Len(save_click(session_user[s].id, w))
                                = Len(transactions) + 1
                 /\ session_user[s].role = "admin" =>
                       /\ admin_ui(s)
                       /\ set_user_active(session_user[s].id, TRUE) # users
                 /\ \A p \in PasswordInputs :
                       /\ verify_login(session_user[s].username, p) = None
                       /\ login_click(session_user[s].username, p).shown
                             = InvalidLogin)

\* a staff session of a deactivated account with an entry of its own, beside
\* a login that was refused
C14_Witness ==
    /\ shown = InvalidLogin
    /\ \E s \in DOMAIN session_user :
          /\ session_user[s] # None
          /\ session_user[s].role = "staff"
          /\ ~account(session_user[s].id).active
          /\ Len(transactions) = 1
          /\ transactions[1].staff_user_id = session_user[s].id
          /\ login_click(session_user[s].username, "p").shown = InvalidLogin
    /\ \E i \in 1..Len(users) : users[i].role = "admin" /\ users[i].active

====
